---- MODULE Spec2Model ----
(***************************************************************************)
(* FormField / ControlState of                                             *)
(* sentry/app/views/settings/components/forms/formField/index.jsx          *)
(*                                                                         *)
(* The component is modelled together with the form model it talks to.     *)
(* Every call the component makes (on the form model or on a callback the  *)
(* caller supplied through props) is recorded, in order, in `calls`.       *)
(***************************************************************************)
EXTENDS Naturals, Sequences, FiniteSets, TLC

\* Strings are numbered: 0 is the empty string '', 1..MaxStr are non-empty.
MaxStr == 1
\* Error messages the form model may report, numbered 1..MaxErr.
MaxErr == 2
\* DOM elements the input reference callback may be handed, numbered 1..MaxEls.
MaxEls == 2
\* Cap on the number of recorded focus() calls.
MaxFocus == 3

-----------------------------------------------------------------------------
(* JavaScript values.  One record shape for all of them:                    *)
(*   t    : typeof-like tag ("undefined", "null", "string", "object")       *)
(*   s    : the string's number when t = "string"                          *)
(*   key  : the object's .key  ("undefined" when it has none)              *)
(*   hasTarget, tvt, tvs : whether the object has a .target, and the tag   *)
(*          and string number of .target.value                              *)

Prim(t, s) ==
  [t |-> t, s |-> s, key |-> "undefined", hasTarget |-> FALSE, tvt |-> "undefined", tvs |-> 0]

Undef == Prim("undefined", 0)

Null == Prim("null", 0)

Str(n) == Prim("string", n)

Evt(key, hasTarget, tv) ==
  [t |-> "object", s |-> 0, key |-> key, hasTarget |-> hasTarget, tvt |-> tv.t, tvs |-> tv.s]

Strings == {Str(n) : n \in 0..MaxStr}

Prims == {Undef, Null} \cup Strings

Keys == {"Enter", "a"}

Events ==
  {Evt(k, FALSE, Undef) : k \in Keys} \cup
  {Evt(k, TRUE, tv) : k \in Keys, tv \in {Undef} \cup Strings}

Values == Prims \cup Events

\* The argument lists of a control that follows the (value, event) / (event)
\* conventions, and of one that passes a bare value: a keyboard or change
\* event with or without a target, alone or after an explicit value.
UsualEvents ==
  {Evt("a", FALSE, Undef)} \cup {Evt(k, TRUE, Str(n)) : k \in Keys, n \in 1..MaxStr}

UsualArgPairs ==
  (Prims \X UsualEvents) \cup ((Prims \cup UsualEvents) \X {Undef})

AllArgPairs == Values \X Values

\* JavaScript truthiness (ToBoolean) of a value.
Truthy(v) == v.t = "object" \/ (v.t = "string" /\ v.s # 0)

\* utils.defined: neither undefined nor null.
defined(v) == v.t \notin {"undefined", "null"}

\* event && event.target && event.target.value
TargetValue(event) ==
  IF ~Truthy(event) THEN event
  ELSE IF ~event.hasTarget THEN Undef
  ELSE Prim(event.tvt, event.tvs)

\* getValueFromEvent with the accompanying event's target value winning over
\* the explicit value.
getValueFromEvent_EventWins(valueOrEvent, e) ==
  LET event == IF Truthy(e) THEN e ELSE valueOrEvent
  IN  [value |-> TargetValue(event), event |-> event]

getValueFromEvent(valueOrEvent, e) ==
  LET event == IF Truthy(e) THEN e ELSE valueOrEvent
      value == IF defined(e) THEN valueOrEvent ELSE TargetValue(event)
  IN  [value |-> value, event |-> event]

\* event.key: a TypeError on undefined/null, undefined on a primitive.
KeyThrows(event) == event.t \in {"undefined", "null"}

KeyOf(event) == IF event.t = "object" THEN event.key ELSE "undefined"

-----------------------------------------------------------------------------
VARIABLES
  props,     \* this.props
  hash,      \* this.context.location.hash ("undefined" when absent)
  form,      \* the form model's state for this field (this.context.form)
  mounted,   \* componentDidMount has run
  input,     \* this.input: 0 when undefined/null, else the element
  focusLog,  \* the elements focus() was called on, in order
  argPairs,  \* the argument lists (a1, a2) the input control may call a handler with
  calls,     \* the calls made by the last operation, in order
  lastOp,    \* the last operation and its arguments
  view       \* what is rendered

vars == <<props, hash, form, mounted, input, focusLog, argPairs, calls, lastOp, view>>

Names == {"email", "username"}

Hashes == {"undefined", ""} \cup {"#" \o n : n \in Names}

SaveOnBlurValues == {"undefined", "true", "false"}

Errors == {Undef} \cup {Str(n) : n \in 1..MaxErr}

\* A recorded call: fn(name, v) on the form model when argc = 2, fn(name)
\* when argc = 1; for a callback of props, fn(v, e) and name = "".
Call(fn, name, argc, v, e) == [fn |-> fn, name |-> name, argc |-> argc, v |-> v, e |-> e]

ModelFns ==
  {"setFieldDescriptor", "setValue", "handleBlurField", "handleSaveField",
   "handleCancelSaveField"}

Op(op, a1, a2, n, ref) ==
  [op |-> op, a1 |-> a1, a2 |-> a2, value |-> n.value, event |-> n.event,
   threw |-> FALSE, ref |-> ref]

NoNorm == [value |-> Undef, event |-> Undef]


-----------------------------------------------------------------------------
(* The form model (this.context.form): an external collaborator.  Its      *)
(* reactions to the component's notifications follow the per-field state   *)
(* machine of the design: a change while saveOnBlur is off makes the save  *)
(* pending, a blur with saveOnBlur on or a Save click starts a save, and   *)
(* Cancel reverts the value.                                               *)

InitialValue == Null

IdleForm ==
  [value |-> InitialValue, error |-> Undef, saving |-> FALSE, saved |-> FALSE,
   showSave |-> FALSE, showReturnButton |-> FALSE, descriptor |-> "none"]

Model_setFieldDescriptor(f, p) == [f EXCEPT !.descriptor = p.saveOnBlur]

Model_setValue(f, v) ==
  [f EXCEPT !.value = v,
            !.showSave = IF f.descriptor = "false" THEN TRUE ELSE @]

Model_handleBlurField(f, v) ==
  IF f.descriptor = "false" THEN f ELSE [f EXCEPT !.saving = TRUE]

Model_handleSaveField(f, v) == [f EXCEPT !.saving = TRUE, !.showSave = FALSE]

Model_handleCancelSaveField(f) == [f EXCEPT !.value = InitialValue, !.showSave = FALSE]

\* The form model after one recorded call (a callback of props leaves it alone).
ModelAfter(f, p, c) ==
  CASE c.fn = "setFieldDescriptor"    -> Model_setFieldDescriptor(f, p)
    [] c.fn = "setValue"              -> Model_setValue(f, c.v)
    [] c.fn = "handleBlurField"       -> Model_handleBlurField(f, c.v)
    [] c.fn = "handleSaveField"       -> Model_handleSaveField(f, c.v)
    [] c.fn = "handleCancelSaveField" -> Model_handleCancelSaveField(f)
    [] OTHER                          -> f

RECURSIVE ApplyCalls(_, _, _)
ApplyCalls(f, p, cs) ==
  IF cs = <<>> THEN f ELSE ApplyCalls(ModelAfter(f, p, Head(cs)), p, Tail(cs))

-----------------------------------------------------------------------------
(* Rendering *)

\* ControlState.render with the saved branch tested before the saving branch.
ControlState_SavedFirst(f) ==
  [slot |-> IF f.saved THEN "checkmark" ELSE IF f.saving THEN "spinner" ELSE "none",
   errorIcon |-> Truthy(f.error)]

\* ControlState.render: the saving/saved slot and the error icon.
ControlState(f) ==
  [slot |-> IF f.saving THEN "spinner" ELSE IF f.saved THEN "checkmark" ELSE "none",
   errorIcon |-> Truthy(f.error)]

\* The errorState observer without the hideErrorMessage test.
errorState_IgnoresHide(p, f) ==
  IF Truthy(f.error) THEN [shown |-> TRUE, text |-> f.error]
  ELSE [shown |-> FALSE, text |-> Undef]

\* The errorState observer: the tooltip and its text.
errorState(p, f) ==
  LET error == f.error
      shouldShowErrorMessage == Truthy(error) /\ ~p.hideErrorMessage
  IN  IF ~shouldShowErrorMessage THEN [shown |-> FALSE, text |-> Undef]
      ELSE [shown |-> TRUE, text |-> error]

\* !saveOnBlur alone, without the typeof test.
saveOnBlurFieldOverride_AnyFalsy(saveOnBlur) == saveOnBlur # "true"

\* typeof saveOnBlur !== 'undefined' && !saveOnBlur
saveOnBlurFieldOverride(saveOnBlur) ==
  saveOnBlur # "undefined" /\ ~(saveOnBlur = "true")

\* The inline save/cancel bar and the actions it offers.
saveBar(p, f) ==
  IF saveOnBlurFieldOverride(p.saveOnBlur) /\ f.showSave
  THEN [shown |-> TRUE, actions |-> <<"Cancel", "Save">>]
  ELSE [shown |-> FALSE, actions |-> <<>>]

\* The props handed to the wrapped input control.
inputProps(p, f) ==
  [name |-> p.name, id |-> p.name,
   value |-> IF f.value = Null THEN Str(0) ELSE f.value,
   error |-> f.error]

render(p, f) ==
  [controlState |-> ControlState(f),
   errorState |-> errorState(p, f),
   input |-> inputProps(p, f),
   returnButton |-> f.showReturnButton,
   bar |-> saveBar(p, f)]

-----------------------------------------------------------------------------
(* Handlers: the calls each one makes, in order *)

componentDidMount(p) == <<Call("setFieldDescriptor", p.name, 2, Undef, Undef)>>

\* handleChange leaving the model write to a supplied onChange.
handleChange_SkipsModel(p, a1, a2) ==
  LET n == getValueFromEvent(a1, a2)
  IN  IF p.onChange THEN <<Call("onChange", "", 2, n.value, n.event)>>
      ELSE <<Call("setValue", p.name, 2, n.value, Undef)>>

handleChange(p, a1, a2) ==
  LET n == getValueFromEvent(a1, a2)
  IN  (IF p.onChange THEN <<Call("onChange", "", 2, n.value, n.event)>> ELSE <<>>)
      \o <<Call("setValue", p.name, 2, n.value, Undef)>>

\* handleBlur writing the value as well as notifying the blur.
handleBlur_AlsoSetsValue(p, a1, a2) ==
  LET n == getValueFromEvent(a1, a2)
  IN  (IF p.onBlur THEN <<Call("onBlur", "", 2, n.value, n.event)>> ELSE <<>>)
      \o <<Call("setValue", p.name, 2, n.value, Undef),
           Call("handleBlurField", p.name, 2, n.value, Undef)>>

\* handleBlur deciding by itself to skip the notification when saveOnBlur is off.
handleBlur_ChecksSaveOnBlur(p, a1, a2) ==
  LET n == getValueFromEvent(a1, a2)
  IN  (IF p.onBlur THEN <<Call("onBlur", "", 2, n.value, n.event)>> ELSE <<>>)
      \o (IF p.saveOnBlur = "false" THEN <<>>
          ELSE <<Call("handleBlurField", p.name, 2, n.value, Undef)>>)

handleBlur(p, a1, a2) ==
  LET n == getValueFromEvent(a1, a2)
  IN  (IF p.onBlur THEN <<Call("onBlur", "", 2, n.value, n.event)>> ELSE <<>>)
      \o <<Call("handleBlurField", p.name, 2, n.value, Undef)>>

\* handleKeyDown not passing an Enter on to a supplied onKeyDown.
handleKeyDown_EnterSwallowed(p, a1, a2) ==
  LET n == getValueFromEvent(a1, a2)
  IN  IF KeyThrows(n.event) THEN <<>>
      ELSE IF KeyOf(n.event) = "Enter"
           THEN <<Call("handleBlurField", p.name, 2, n.value, Undef)>>
           ELSE IF p.onKeyDown THEN <<Call("onKeyDown", "", 2, n.value, n.event)>>
                ELSE <<>>

handleKeyDown(p, a1, a2) ==
  LET n == getValueFromEvent(a1, a2)
  IN  IF KeyThrows(n.event) THEN <<>>
      ELSE (IF KeyOf(n.event) = "Enter"
            THEN <<Call("handleBlurField", p.name, 2, n.value, Undef)>> ELSE <<>>)
           \o (IF p.onKeyDown THEN <<Call("onKeyDown", "", 2, n.value, n.event)>>
               ELSE <<>>)

\* handleSaveField passing the value as rendered (null shown as '').
handleSaveField_RenderedValue(p, f) ==
  <<Call("handleSaveField", p.name, 2, inputProps(p, f).value, Undef)>>

\* model.handleSaveField(name, model.getValue(name))
handleSaveField(p, f) == <<Call("handleSaveField", p.name, 2, f.value, Undef)>>

handleCancelField(p) == <<Call("handleCancelSaveField", p.name, 1, Undef, Undef)>>

\* handleInputMount: the new this.input and whether ref.focus() is called.
handleInputMount(p, h, inp, ref) ==
  LET first == ref # 0 /\ inp = 0
      noHash == h \in {"undefined", ""}
  IN  IF first /\ (noHash \/ h # "#" \o p.name)
      THEN [input |-> inp, focus |-> FALSE]
      ELSE [input |-> ref, focus |-> first]

-----------------------------------------------------------------------------
(* State *)

Props(name, saveOnBlur, hideErrorMessage, onChange, onBlur, onKeyDown) ==
  [name |-> name, saveOnBlur |-> saveOnBlur, hideErrorMessage |-> hideErrorMessage,
   onChange |-> onChange, onBlur |-> onBlur, onKeyDown |-> onKeyDown]

Constructed(p, h, args) ==
  /\ props = p
  /\ argPairs = args
  /\ hash = h
  /\ form = IdleForm
  /\ mounted = FALSE
  /\ input = 0
  /\ focusLog = <<>>
  /\ calls = <<>>
  /\ lastOp = Op("constructor", Undef, Undef, NoNorm, 0)
  /\ view = render(p, IdleForm)

\* A field of a form, with any saveOnBlur setting, with or without the
\* optional callbacks.
Init ==
  \E sob \in SaveOnBlurValues, cb \in BOOLEAN :
    Constructed(Props("email", sob, FALSE, cb, cb, cb), "undefined", UsualArgPairs)

\* The component makes the calls cs: the form model reacts to each, and the
\* observers re-render from the model's new state.
Deliver(op, cs) ==
  /\ calls' = cs
  /\ form' = ApplyCalls(form, props, cs)
  /\ view' = render(props, form')
  /\ lastOp' = op

ComponentDidMount ==
  /\ ~mounted
  /\ mounted' = TRUE
  /\ Deliver(Op("componentDidMount", Undef, Undef, NoNorm, 0), componentDidMount(props))
  /\ UNCHANGED <<props, hash, input, focusLog, argPairs>>

HandleChange ==
  /\ mounted
  /\ \E a \in argPairs :
       LET a1 == a[1]
           a2 == a[2]
       IN
       Deliver(Op("handleChange", a1, a2, getValueFromEvent(a1, a2), 0),
               handleChange(props, a1, a2))
  /\ UNCHANGED <<props, hash, mounted, input, focusLog, argPairs>>

HandleBlur ==
  /\ mounted
  /\ \E a \in argPairs :
       LET a1 == a[1]
           a2 == a[2]
       IN
       Deliver(Op("handleBlur", a1, a2, getValueFromEvent(a1, a2), 0),
               handleBlur(props, a1, a2))
  /\ UNCHANGED <<props, hash, mounted, input, focusLog, argPairs>>

HandleKeyDown ==
  /\ mounted
  /\ \E a \in argPairs :
       LET a1 == a[1]
           a2 == a[2]
           n == getValueFromEvent(a1, a2)
       IN  Deliver([Op("handleKeyDown", a1, a2, n, 0) EXCEPT !.threw = KeyThrows(n.event)],
                   handleKeyDown(props, a1, a2))
  /\ UNCHANGED <<props, hash, mounted, input, focusLog, argPairs>>

\* A click on the bar's Save button.
ClickSave ==
  /\ mounted
  /\ view.bar.shown
  /\ Deliver(Op("handleSaveField", Undef, Undef, NoNorm, 0), handleSaveField(props, form))
  /\ UNCHANGED <<props, hash, mounted, input, focusLog, argPairs>>

\* A click on the bar's Cancel button.
ClickCancel ==
  /\ mounted
  /\ view.bar.shown
  /\ Deliver(Op("handleCancelField", Undef, Undef, NoNorm, 0), handleCancelField(props))
  /\ UNCHANGED <<props, hash, mounted, input, focusLog, argPairs>>

\* A re-render (of the component or of one of its observers).
Render ==
  /\ lastOp' = Op("render", Undef, Undef, NoNorm, 0)
  /\ calls' = <<>>
  /\ view' = render(props, form)
  /\ UNCHANGED <<props, hash, form, mounted, input, focusLog, argPairs>>

Next ==
  \/ ComponentDidMount
  \/ HandleChange
  \/ HandleBlur
  \/ HandleKeyDown
  \/ ClickSave
  \/ ClickCancel
  \/ Render

Spec == Init /\ [][Next]_vars

\* The same component, called with one argument list out of all of them, and
\* with any combination of the optional callbacks.
InitAnyArgs ==
  \E sob \in SaveOnBlurValues, oc \in BOOLEAN, ob \in BOOLEAN, ok \in BOOLEAN,
     a \in AllArgPairs :
    Constructed(Props("email", sob, FALSE, oc, ob, ok), "undefined", {a})

SpecAnyArgs == InitAnyArgs /\ [][Next]_vars

-----------------------------------------------------------------------------
(* The form model changing on its own (a save completing or failing, a     *)
(* validation error, another writer): the observers re-render.             *)

FormStates ==
  [value : Prims, error : Errors, saving : BOOLEAN, saved : BOOLEAN,
   showSave : BOOLEAN, showReturnButton : BOOLEAN, descriptor : SaveOnBlurValues]

ModelUpdate ==
  /\ mounted
  /\ \E f \in FormStates :
       /\ f.descriptor = form.descriptor
       /\ f # form
       /\ form' = f
  /\ view' = render(props, form')
  /\ calls' = <<>>
  /\ lastOp' = Op("modelUpdate", Undef, Undef, NoNorm, 0)
  /\ UNCHANGED <<props, hash, mounted, input, focusLog, argPairs>>

InitView ==
  \E sob \in SaveOnBlurValues, hide \in BOOLEAN :
    Constructed(Props("email", sob, hide, FALSE, FALSE, FALSE), "undefined", {})

NextView ==
  \/ ComponentDidMount
  \/ ModelUpdate
  \/ Render

SpecView == InitView /\ [][NextView]_vars

-----------------------------------------------------------------------------
(* The input reference callback *)

HandleInputMount ==
  /\ Len(focusLog) < MaxFocus
  /\ \E ref \in 0..MaxEls :
       LET r == handleInputMount(props, hash, input, ref)
       IN  /\ input' = r.input
           /\ focusLog' = IF r.focus THEN Append(focusLog, ref) ELSE focusLog
           /\ lastOp' = Op("handleInputMount", Undef, Undef, NoNorm, ref)
  /\ calls' = <<>>
  /\ UNCHANGED <<props, hash, form, mounted, view, argPairs>>

InitFocus ==
  \E n \in Names, h \in Hashes :
    Constructed(Props(n, "undefined", FALSE, FALSE, FALSE, FALSE), h, {})

NextFocus ==
  \/ HandleInputMount
  \/ ComponentDidMount

SpecFocus == InitFocus /\ [][NextFocus]_vars

-----------------------------------------------------------------------------
(* Properties *)

IsHandler == lastOp.op \in {"handleChange", "handleBlur", "handleKeyDown"}

ModelCalls(cs) == SelectSeq(cs, LAMBDA c : c.fn \in ModelFns)

CallbackCalls(cs) == SelectSeq(cs, LAMBDA c : c.fn \notin ModelFns)

\* Every value the last handler passed on (to the form model or to a callback).
PassedOn == {calls[i].v : i \in DOMAIN calls}

IsEventWithTarget(v) == v.t = "object" /\ v.hasTarget

\* C1, as stated: in every handler invocation whose first argument is an
\* explicit value (not an event object), the value the handler passes on is
\* that first argument, with or without an event as second argument.
C1_ExplicitValueVerbatim ==
  (IsHandler /\ lastOp.a1.t \in {"null", "string"}) =>
    (lastOp.value = lastOp.a1 /\ PassedOn \subseteq {lastOp.a1})

\* C1, amended: when a second argument that is neither undefined nor null
\* accompanies it, the first argument is the normalized value verbatim, whatever
\* the second argument's target.value is; a non-empty explicit value passed
\* alone normalizes to undefined (it is read as an event without a target).
C1_ValueVerbatimWhenEventGiven ==
  /\ (IsHandler /\ lastOp.a2.t \notin {"undefined", "null"}) =>
       (lastOp.value = lastOp.a1 /\ PassedOn \subseteq {lastOp.a1})
  /\ (IsHandler /\ lastOp.a2.t \in {"undefined", "null"}
        /\ lastOp.a1.t = "string" /\ lastOp.a1.s # 0) =>
       (lastOp.value = Undef /\ PassedOn \subseteq {Undef})

C1_Witness ==
  /\ lastOp.op = "handleChange"
  /\ lastOp.a1 = Str(1)
  /\ IsEventWithTarget(lastOp.a2) /\ lastOp.a2.tvt = "string" /\ lastOp.a2.tvs = 0
  /\ calls # <<>>
  /\ calls[Len(calls)].fn = "setValue"
  /\ calls[Len(calls)].v = Str(1)

\* C2: every handleChange calls the model's setValue(name, v) exactly once, as
\* its last call, with the normalized value v (the event's target.value when
\* only an event is passed); a supplied onChange is called with (v, event)
\* before it, and nothing else is called.
C2_ChangeAlwaysWritesModel ==
  lastOp.op = "handleChange" =>
    /\ ModelCalls(calls) = <<Call("setValue", props.name, 2, lastOp.value, Undef)>>
    /\ calls = (IF props.onChange
                THEN <<Call("onChange", "", 2, lastOp.value, lastOp.event)>>
                ELSE <<>>) \o ModelCalls(calls)
    /\ (lastOp.a2 = Undef /\ IsEventWithTarget(lastOp.a1)) =>
         /\ lastOp.value = Prim(lastOp.a1.tvt, lastOp.a1.tvs)
         /\ lastOp.event = lastOp.a1

C2_Witness ==
  /\ lastOp.op = "handleChange"
  /\ props.onChange
  /\ lastOp.a2 = Undef
  /\ IsEventWithTarget(lastOp.a1) /\ lastOp.a1.tvt = "string" /\ lastOp.a1.tvs = 1
  /\ Len(calls) = 2
  /\ calls[2].fn = "setValue" /\ calls[2].v = Str(1)
  /\ form.value = Str(1)

\* C3: every handleBlur, whatever saveOnBlur is, calls the model's
\* handleBlurField(name, v) exactly once, as its last call, with the
\* normalized value v; a supplied onBlur is called with (v, event) before it.
C3_BlurAlwaysNotifiesModel ==
  lastOp.op = "handleBlur" =>
    /\ ModelCalls(calls) = <<Call("handleBlurField", props.name, 2, lastOp.value, Undef)>>
    /\ calls = (IF props.onBlur
                THEN <<Call("onBlur", "", 2, lastOp.value, lastOp.event)>>
                ELSE <<>>) \o ModelCalls(calls)

C3_Witness ==
  /\ lastOp.op = "handleBlur"
  /\ props.saveOnBlur = "false"
  /\ props.onBlur
  /\ Len(calls) = 2
  /\ calls[1].fn = "onBlur"
  /\ calls[2].fn = "handleBlurField"

\* C9: in every keydown invocation that carries an event (the handler reads
\* event.key), the model's handleBlurField(name, v) is called, once, exactly
\* when the event's key is 'Enter'; no other model method is called; and a
\* supplied onKeyDown is called with (v, event) whatever the key.
C9_KeyDownEnterNotifies ==
  (lastOp.op = "handleKeyDown" /\ ~lastOp.threw) =>
    LET enter == lastOp.event.t = "object" /\ lastOp.event.key = "Enter"
    IN  /\ ModelCalls(calls) =
             (IF enter
              THEN <<Call("handleBlurField", props.name, 2, lastOp.value, Undef)>>
              ELSE <<>>)
        /\ CallbackCalls(calls) =
             (IF props.onKeyDown
              THEN <<Call("onKeyDown", "", 2, lastOp.value, lastOp.event)>>
              ELSE <<>>)

C9_Witness ==
  /\ lastOp.op = "handleKeyDown"
  /\ ~lastOp.threw
  /\ lastOp.event.key = "Enter"
  /\ props.onKeyDown
  /\ Len(calls) = 2
  /\ calls[1].fn = "handleBlurField"
  /\ calls[2].fn = "onKeyDown"

\* C4: the inline save/cancel bar is rendered exactly when saveOnBlur is
\* explicitly false and the model's 'showSave' field state is true; with
\* saveOnBlur unset or true it is never rendered.
C4_BarIffOverrideAndShowSave ==
  /\ view.bar.shown <=> (props.saveOnBlur = "false" /\ form.showSave)
  /\ props.saveOnBlur \in {"undefined", "true"} => ~view.bar.shown

C4_Witness ==
  /\ lastOp.op = "modelUpdate"
  /\ props.saveOnBlur = "false"
  /\ form.showSave
  /\ view.bar.shown

\* C5: a rendered bar offers exactly Cancel and Save; a Save click calls the
\* model's handleSaveField(name, value) once with the value the model holds at
\* the click; a Cancel click calls handleCancelSaveField(name) once, without a
\* value argument.
C5_BarActions ==
  [][ /\ view'.bar.shown =>
           (Len(view'.bar.actions) = 2
            /\ {view'.bar.actions[i] : i \in 1..2} = {"Cancel", "Save"})
      /\ lastOp'.op = "handleSaveField" =>
           calls' = <<Call("handleSaveField", props.name, 2, form.value, Undef)>>
      /\ lastOp'.op = "handleCancelField" =>
           calls' = <<Call("handleCancelSaveField", props.name, 1, Undef, Undef)>>
    ]_vars

C5_Witness ==
  /\ lastOp.op = "handleSaveField"
  /\ Len(calls) = 1
  /\ calls[1].fn = "handleSaveField"
  /\ calls[1].v = Null
  /\ form.value = Null

\* C6: the error tooltip is rendered exactly when the model reports an error
\* and hideErrorMessage is false, and then shows the model's error text; the
\* error icon of the control state is rendered whenever there is an error,
\* hideErrorMessage or not.
C6_TooltipIffErrorAndNotHidden ==
  /\ view.errorState.shown <=> (form.error # Undef /\ ~props.hideErrorMessage)
  /\ view.errorState.shown => view.errorState.text = form.error
  /\ view.controlState.errorIcon <=> form.error # Undef

C6_Witness ==
  /\ lastOp.op = "modelUpdate"
  /\ ~props.hideErrorMessage
  /\ form.error = Str(2)
  /\ view.errorState.shown
  /\ view.errorState.text = Str(2)
  /\ view.controlState.errorIcon

\* C7: the saving/saved slot shows the spinner whenever saving is true (saved
\* or not), the checkmark only when saved is true and saving is false, and
\* nothing otherwise; the error icon is rendered exactly when the model has an
\* error, whatever the saving/saved flags are.
C7_ControlStateIndicators ==
  /\ view.controlState.slot \in {"none", "spinner", "checkmark"}
  /\ view.controlState.slot = "spinner" <=> form.saving
  /\ view.controlState.slot = "checkmark" <=> (form.saved /\ ~form.saving)
  /\ view.controlState.slot = "none" <=> (~form.saved /\ ~form.saving)
  /\ view.controlState.errorIcon <=> form.error # Undef

C7_Witness ==
  /\ lastOp.op = "modelUpdate"
  /\ form.saving
  /\ form.saved
  /\ form.error # Undef
  /\ view.controlState.slot = "spinner"
  /\ view.controlState.errorIcon

HashMatches == hash = "#" \o props.name

\* C8: when the hash is '#<name>', over any sequence of input-reference
\* callbacks focus() is called exactly once, on the first non-null reference;
\* otherwise focus() is never called.
C8_FocusExactlyOnce ==
  /\ HashMatches =>
       /\ Len(focusLog) <= 1
       /\ input # 0 => Len(focusLog) = 1
  /\ ~HashMatches => focusLog = <<>>

\* The model calls an operation may make.
OwnNotifications(op) ==
  CASE op = "componentDidMount" -> {<<"setFieldDescriptor">>}
    [] op = "handleChange"      -> {<<"setValue">>}
    [] op = "handleBlur"        -> {<<"handleBlurField">>}
    [] op = "handleKeyDown"     -> {<<>>, <<"handleBlurField">>}
    [] op = "handleSaveField"   -> {<<"handleSaveField">>}
    [] op = "handleCancelField" -> {<<"handleCancelSaveField">>}
    [] OTHER                    -> {<<>>}

FnsOf(cs) == [i \in DOMAIN cs |-> cs[i].fn]

\* C10: the component changes the form model only through its notifications,
\* each operation making only its own (mount: setFieldDescriptor, change:
\* setValue, blur: handleBlurField, keydown: handleBlurField or none, Save:
\* handleSaveField, Cancel: handleCancelSaveField); the model changes only as
\* its reaction to these calls, and a render makes no call and leaves the
\* model as it is.
C10_SingleWriterFrame ==
  [][ /\ FnsOf(ModelCalls(calls')) \in OwnNotifications(lastOp'.op)
      /\ \A i \in DOMAIN calls' : calls'[i].fn \in ModelFns => calls'[i].name = props.name
      /\ form' = ApplyCalls(form, props, ModelCalls(calls'))
      /\ lastOp'.op = "render" => (form' = form /\ calls' = <<>>)
    ]_vars

C10_Witness ==
  /\ lastOp.op = "render"
  /\ calls = <<>>
  /\ form.showSave
  /\ form.value = Str(1)
  /\ view.bar.shown
  /\ view.input.value = Str(1)

=============================================================================
